---- MODULE Spec2Model ----
(***************************************************************************)
(* Model of src/app.py: the role-scoped PDF cache of the school chat bot.  *)
(*                                                                         *)
(* load_and_upload_pdfs_by_role (lines 61-153) rebuilds the two module     *)
(* globals UPLOADED_FILES_CACHE and FILE_LIST_DATA from Google Drive; it   *)
(* runs once at import time (line 170) and once per GET /refresh (line     *)
(* 183).  GET / reads FILE_LIST_DATA (line 177) and POST /chat reads       *)
(* UPLOADED_FILES_CACHE (line 208).  The Flask server handles requests on  *)
(* threads, so request handlers interleave at every statement that         *)
(* touches a global or calls an external service.                          *)
(*                                                                         *)
(* The role names of the source are Japanese strings; the model writes     *)
(* them in ASCII: "zaigakusei" (line 78, first), "jukensei" (second),      *)
(* "hogosha" (third).                                                      *)
(*                                                                         *)
(* Specifications:                                                         *)
(*   Spec      startup, then requests of every route handled on two        *)
(*             threads, a request arriving at any time;                    *)
(*   SeqSpec   the behaviours of Spec in which one thread handles every    *)
(*             request, over a larger Drive;                               *)
(*   FairSpec  the startup pass alone, every step of it eventually taken;  *)
(*   ChatSpec  /chat requests with histories of every shape;               *)
(*   TwiceSpec the startup pass, then one /refresh pass on the same Drive. *)
(***************************************************************************)
EXTENDS Naturals, Sequences, FiniteSets, TLC

\* Largest number of PDFs the Drive listing returns for one role folder.
MaxItems == 2

\* Largest number of PDFs under the root, all folders together.
MaxDocs == 1

\* Largest number of PDFs under the root where one thread handles every
\* request.
MaxSeqDocs == 2

\* Largest number of turns in the history of a /chat body (more than the
\* window of line 202).
MaxHistory == 5

\* target_roles, line 78 (also the keys of the reset dictionary, line 74).
target_roles == <<"zaigakusei", "jukensei", "hogosha">>

RoleSet == {target_roles[i] : i \in 1..Len(target_roles)}

\* The import-time caller (line 170) and the request-handling threads.
Main == "main"

\* The threads in the order the server hands requests to them.
thread_order == <<"t1", "t2">>

Threads == {thread_order[i] : i \in 1..Len(thread_order)}

Procs == {Main} \cup Threads

\* File.state.name values of an uploaded file (lines 131, 135).
PROCESSING == "PROCESSING"

ACTIVE == "ACTIVE"

FAILED == "FAILED"

HandleStates == {PROCESSING, ACTIVE, FAILED}

\* The value of `uploaded_file` before line 128 has run.
NoHandle == [display_name |-> 0, src |-> <<"", 0>>, state |-> "NONE"]

\* The webViewLink Drive gives for the file of an id.
ViewLink(id) == [href |-> "view", id |-> id]

\* The default url of line 113.
NoLink == [href |-> "#", id |-> <<"", 0>>]

\* One Drive entry of the folder named r: files(id, name, webViewLink), line 98.
\* The entry has the key webViewLink when the listing returns one.
DriveItem(r, k, linked) ==
  IF linked THEN [id |-> <<r, k>>, name |-> k, webViewLink |-> ViewLink(<<r, k>>)]
  ELSE [id |-> <<r, k>>, name |-> k]

\* The Drive contents under DRIVE_FOLDER_ID: for each role whether a folder of
\* that name exists (line 86), how many PDFs it lists (line 98) and whether
\* the entries listed carry a webViewLink.
FolderShapes ==
  {[exists |-> FALSE, count |-> 0, linked |-> TRUE]}
  \cup {[exists |-> TRUE, count |-> n, linked |-> TRUE] : n \in 0..MaxItems}
  \cup {[exists |-> TRUE, count |-> n, linked |-> FALSE] : n \in 1..MaxItems}

RECURSIVE SumCounts(_, _)
SumCounts(store, rs) ==
  IF rs = {} THEN 0
  ELSE LET r == CHOOSE x \in rs : TRUE IN store[r].count + SumCounts(store, rs \ {r})

\* The Drive contents with at most n PDFs.
RemoteStores(n) == {s \in [RoleSet -> FolderShapes] : SumCounts(s, RoleSet) <= n}

FolderExists(store, r) == store[r].exists

\* The PDFs of the folder named r, in listing order.
FolderItems(store, r) ==
  IF store[r].exists
    THEN [k \in 1..store[r].count |-> DriveItem(r, k, store[r].linked)]
    ELSE << >>

VARIABLES
  remote,                \* the Drive contents (environment)
  UPLOADED_FILES_CACHE,  \* line 42: dict role -> list of uploaded files
  FILE_LIST_DATA,        \* line 43: list of {name, url}
  tmp_files,             \* per caller: the NamedTemporaryFile paths (line 119) its
                         \* current request has on disk
  log_rows,              \* per caller: the rows its current request appended to
                         \* the spreadsheet (line 163)
  pc,                    \* control point of each caller
  role_i,                \* index of `role` in target_roles (line 81)
  item_i,                \* index of `item` in items (line 107)
  role_files,            \* line 105
  uploaded_file,         \* lines 128, 133
  chat_req,              \* locals of chat() (lines 193-249), and what its calls to
                         \* the generation service and the log sink did
  resp,                  \* the HTTP response of the request being handled
  run,                   \* per caller: how its pass ended, which files it saw ACTIVE
  pre,                   \* the globals as they were when the pass in flight began
  seen_during            \* per reader: the pass in flight when it read a global

vars == <<remote, UPLOADED_FILES_CACHE, FILE_LIST_DATA, tmp_files, log_rows, pc,
          role_i, item_i, role_files, uploaded_file, chat_req, resp, run, pre,
          seen_during>>

\* The locals of load_and_upload_pdfs_by_role and its bookkeeping.
sync_vars == <<role_i, item_i, role_files, uploaded_file, run>>

\* Role values of a /chat body that are no strings: a JSON list and a JSON
\* object, which Python cannot hash.
UnhashableRoles == {"json_list", "json_object"}

\* dict.get(key, []) on the cache dictionary (line 208): the list of the key,
\* [] for a hashable value that is no key, TypeError for an unhashable one.
CacheGet(cache, r) ==
  [raised |-> r \in UnhashableRoles,
   value |-> IF r \in DOMAIN cache THEN cache[r] ELSE << >>]

\* Line 148 with the key of the first role in place of `role`.
CacheSetFirstRole(cache, r, files) ==
  [k \in DOMAIN cache \cup {target_roles[1]} |->
     IF k = target_roles[1] THEN files ELSE cache[k]]

\* cache[role] = files on a dictionary (line 148).
CacheSet(cache, r, files) ==
  [k \in DOMAIN cache \cup {r} |-> IF k = r THEN files ELSE cache[k]]

\* Line 74 written as line 42 is: no key for any role.
ResetCacheEmpty == << >>

\* The dictionary literal of line 74.
ResetCacheValue == [r \in RoleSet |-> << >>]

\* The entry appended to FILE_LIST_DATA for one item (lines 111-114).
ListEntry(role, item) ==
  [name |-> <<role, item.name>>,
   url |-> IF "webViewLink" \in DOMAIN item THEN item.webViewLink ELSE NoLink]

\* The File object genai.upload_file returns for an item (line 128).
Handle(item, state) == [display_name |-> item.name, src |-> item.id, state |-> state]

\* Lines 135-139 without the test of line 135.
AppendAlways(files, h) == Append(files, h)

\* Lines 135-139: only an ACTIVE file joins role_files.
AppendIfActive(files, h) == IF h.state = ACTIVE THEN Append(files, h) ELSE files

\* The temporary path of the file staged for an item (line 124); the paths of
\* different callers are different files.
TmpPath(item) == item.id

Role(p) == target_roles[role_i[p]]

Items(p) == FolderItems(remote, Role(p))

Item(p) == Items(p)[item_i[p]]

\* Control points inside load_and_upload_pdfs_by_role.
SyncPcs == {"reset_cache", "reset_list", "list_folders", "list_files", "append_list",
            "download", "upload", "wait", "get_file", "assign"}

\* A caller is inside load_and_upload_pdfs_by_role.
InFlight(p) == pc[p] \in SyncPcs

NoRun == [result |-> "none", ready |-> {}]

NoPre == [owner |-> "none", cache |-> << >>, files |-> << >>]

NoResp == [kind |-> "none", code |-> 0, status |-> "", reply |-> "", files |-> << >>]

NoChat == [user_message |-> "", user_role |-> "", history_list |-> << >>,
           raised_at |-> "", target_files |-> << >>,
           request_content |-> << >>, bot_reply |-> "", generated |-> "none",
           logged |-> "none"]

\* The module as the import finds it (lines 42-43), before line 170.
Fresh ==
  /\ UPLOADED_FILES_CACHE = << >>
  /\ FILE_LIST_DATA = << >>
  /\ tmp_files = [p \in Procs |-> {}]
  /\ log_rows = [p \in Procs |-> << >>]
  /\ pc = [p \in Procs |-> IF p = Main THEN "boot" ELSE "idle"]
  /\ role_i = [p \in Procs |-> 0]
  /\ item_i = [p \in Procs |-> 0]
  /\ role_files = [p \in Procs |-> << >>]
  /\ uploaded_file = [p \in Procs |-> NoHandle]
  /\ chat_req = [p \in Procs |-> NoChat]
  /\ resp = [p \in Procs |-> NoResp]
  /\ run = [p \in Procs |-> NoRun]
  /\ pre = NoPre
  /\ seen_during = [p \in Procs |-> "none"]

\* A Drive of at most MaxDocs PDFs, each listed with its webViewLink.
Init ==
  /\ remote \in {s \in RemoteStores(MaxDocs) : \A r \in RoleSet : s[r].linked}
  /\ Fresh

\* A Drive of at most MaxSeqDocs PDFs, listed with or without webViewLink.
SeqInit == remote \in RemoteStores(MaxSeqDocs) /\ Fresh

\* The function returns: line 69 (how = "nocreds"), line 153 after the loop
\* (how = "completed") or line 153 after the handler of line 150 (how =
\* "listing_raised", "download_raised", "remove_raised").
Return(p, how) ==
  /\ pc' = [pc EXCEPT ![p] = "returned"]
  /\ run' = [run EXCEPT ![p].result = how]
  /\ role_files' = [role_files EXCEPT ![p] = << >>]
  /\ UNCHANGED <<role_i, item_i, uploaded_file>>

\* An exception of get_credentials (line 68, raised at line 59) or of build
\* (line 71) leaves the function: both calls stand before the try of line 80.
RaiseOut(p) ==
  /\ pc' = [pc EXCEPT ![p] = "raised"]
  /\ run' = [run EXCEPT ![p].result = "setup_raised"]
  /\ UNCHANGED <<role_i, item_i, role_files, uploaded_file>>

\* `for role in target_roles` advances (line 81); after the last role, line 153.
NextRole(p) ==
  IF role_i[p] < Len(target_roles)
    THEN /\ pc' = [pc EXCEPT ![p] = "list_folders"]
         /\ role_i' = [role_i EXCEPT ![p] = role_i[p] + 1]
         /\ item_i' = [item_i EXCEPT ![p] = 0]
         /\ role_files' = [role_files EXCEPT ![p] = << >>]
         /\ uploaded_file' = [uploaded_file EXCEPT ![p] = NoHandle]
         /\ UNCHANGED run
    ELSE Return(p, "completed")

\* What lines 68-71 do: "ok" is credentials found and the Drive client built,
\* "none" is get_credentials returning None, "raise" is get_credentials or
\* build raising.
CredOutcomes == {"ok", "none", "raise"}

\* Lines 66-71: get_credentials(), the early return of line 69 and build().
Enter(p, creds) ==
  /\ pre' = IF \E q \in Procs \ {p} : pc[q] \in SyncPcs \cup {"returned", "raised"}
              THEN NoPre
              ELSE [owner |-> p, cache |-> UPLOADED_FILES_CACHE, files |-> FILE_LIST_DATA]
  /\ IF creds = "ok"
       THEN /\ pc' = [pc EXCEPT ![p] = "reset_cache"]
            /\ UNCHANGED sync_vars
       ELSE IF creds = "none" THEN Return(p, "nocreds") ELSE RaiseOut(p)
  /\ UNCHANGED <<remote, UPLOADED_FILES_CACHE, FILE_LIST_DATA, tmp_files, log_rows,
                 chat_req, resp, seen_during>>

\* Line 170: the import-time call.
Startup(creds) ==
  /\ pc[Main] = "boot"
  /\ Enter(Main, creds)

\* Lines 179-183: GET /refresh calls the loader.
Refresh(t, creds) ==
  /\ pc[t] = "idle"
  /\ pc[Main] = "serving"
  /\ Enter(t, creds)

\* Line 74.
ResetCache(p) ==
  /\ pc[p] = "reset_cache"
  /\ UPLOADED_FILES_CACHE' = ResetCacheValue
  /\ pc' = [pc EXCEPT ![p] = "reset_list"]
  /\ UNCHANGED <<remote, FILE_LIST_DATA, tmp_files, log_rows, chat_req, resp, pre,
                 seen_during>>
  /\ UNCHANGED sync_vars

\* The first iteration of line 81 without line 75 before it.
KeepFileList(p) ==
  /\ pc[p] = "reset_list"
  /\ FILE_LIST_DATA' = FILE_LIST_DATA
  /\ NextRole(p)
  /\ UNCHANGED <<remote, UPLOADED_FILES_CACHE, tmp_files, log_rows, chat_req, resp, pre,
                 seen_during>>

\* Line 75, and the first iteration of line 81.
ResetFileList(p) ==
  /\ pc[p] = "reset_list"
  /\ FILE_LIST_DATA' = << >>
  /\ NextRole(p)
  /\ UNCHANGED <<remote, UPLOADED_FILES_CACHE, tmp_files, log_rows, chat_req, resp, pre,
                 seen_during>>

\* Lines 85-94: the folder query; `raises` is the Drive call failing (line 150).
ListFolders(p, raises) ==
  /\ pc[p] = "list_folders"
  /\ IF raises
       THEN Return(p, "listing_raised")
       ELSE IF ~FolderExists(remote, Role(p))
         THEN NextRole(p)
         ELSE /\ pc' = [pc EXCEPT ![p] = "list_files"]
              /\ UNCHANGED sync_vars
  /\ UNCHANGED <<remote, UPLOADED_FILES_CACHE, FILE_LIST_DATA, tmp_files, log_rows,
                 chat_req, resp, pre, seen_during>>

\* Lines 97-107: the PDF query of the folder found.
ListFiles(p, raises) ==
  /\ pc[p] = "list_files"
  /\ IF raises
       THEN Return(p, "listing_raised")
       ELSE IF Items(p) = << >>
         THEN NextRole(p)
         ELSE /\ pc' = [pc EXCEPT ![p] = "append_list"]
              /\ item_i' = [item_i EXCEPT ![p] = 1]
              /\ role_files' = [role_files EXCEPT ![p] = << >>]
              /\ UNCHANGED <<role_i, uploaded_file, run>>
  /\ UNCHANGED <<remote, UPLOADED_FILES_CACHE, FILE_LIST_DATA, tmp_files, log_rows,
                 chat_req, resp, pre, seen_during>>

\* Lines 108-114.
AppendFileList(p) ==
  /\ pc[p] = "append_list"
  /\ FILE_LIST_DATA' = Append(FILE_LIST_DATA, ListEntry(Role(p), Item(p)))
  /\ pc' = [pc EXCEPT ![p] = "download"]
  /\ UNCHANGED <<remote, UPLOADED_FILES_CACHE, tmp_files, log_rows, chat_req, resp, pre,
                 seen_during>>
  /\ UNCHANGED sync_vars

\* Lines 117-119: get_media builds the request and NamedTemporaryFile creates
\* the temporary file (delete=False).  Both are outside the inner try, so when
\* one raises the exception reaches line 150 and no file has been created.
StageFile(p, raises) ==
  /\ pc[p] = "download"
  /\ TmpPath(Item(p)) \notin tmp_files[p]
  /\ IF raises
       THEN /\ Return(p, "download_raised")
            /\ UNCHANGED tmp_files
       ELSE /\ tmp_files' = [tmp_files EXCEPT ![p] = @ \cup {TmpPath(Item(p))}]
            /\ UNCHANGED pc
            /\ UNCHANGED sync_vars
  /\ UNCHANGED <<remote, UPLOADED_FILES_CACHE, FILE_LIST_DATA, log_rows, chat_req, resp,
                 pre, seen_during>>

\* What the loop of lines 122-123 does: "done" is next_chunk reporting the last
\* chunk, "raise" is next_chunk raising.  A chunk that is not the last changes
\* nothing the model holds.
DownloadOutcomes == {"done", "raise"}

\* Lines 120-124: the chunks are written to the temporary file, which is on
\* disk all the while.  The loop is outside the inner try, so an exception
\* reaches line 150 and the file stays on disk.
Download(p, outcome) ==
  /\ pc[p] = "download"
  /\ TmpPath(Item(p)) \in tmp_files[p]
  /\ IF outcome = "done"
       THEN /\ pc' = [pc EXCEPT ![p] = "upload"]
            /\ UNCHANGED sync_vars
       ELSE Return(p, "download_raised")
  /\ UNCHANGED <<remote, UPLOADED_FILES_CACHE, FILE_LIST_DATA, tmp_files, log_rows,
                 chat_req, resp, pre, seen_during>>

\* `for item in items` advances (line 107); after the last item, line 148.
NextItem(p, files) ==
  /\ role_files' = [role_files EXCEPT ![p] = files]
  /\ uploaded_file' = [uploaded_file EXCEPT ![p] = NoHandle]
  /\ IF item_i[p] < Len(Items(p))
       THEN /\ pc' = [pc EXCEPT ![p] = "append_list"]
            /\ item_i' = [item_i EXCEPT ![p] = item_i[p] + 1]
       ELSE /\ pc' = [pc EXCEPT ![p] = "assign"]
            /\ UNCHANGED item_i
  /\ UNCHANGED role_i

\* What os.remove does in the finally (lines 143-145): "removed", or "raise"
\* (the file cannot be unlinked); the finally is inside the try of line 80, so
\* the exception reaches line 150.
RemoveOutcomes == {"removed", "raise"}

\* Lines 141-145 after an exception inside the inner try: the exception is
\* printed and the temporary file removed, then the next item; when the
\* removal raises, the file stays and the pass ends at line 150.
UploadError(p, rm) ==
  IF rm = "removed"
    THEN /\ tmp_files' = [tmp_files EXCEPT ![p] = tmp_files[p] \ {TmpPath(Item(p))}]
         /\ NextItem(p, role_files[p])
         /\ UNCHANGED run
    ELSE /\ Return(p, "remove_raised")
         /\ UNCHANGED tmp_files

\* Line 128: genai.upload_file; `outcome` is the state of the file returned, or
\* "raise".
UploadFile(p, outcome) ==
  /\ pc[p] = "upload"
  /\ IF outcome = "raise"
       THEN \E rm \in RemoveOutcomes : UploadError(p, rm)
       ELSE /\ uploaded_file' = [uploaded_file EXCEPT ![p] = Handle(Item(p), outcome)]
            /\ pc' = [pc EXCEPT ![p] = "wait"]
            /\ UNCHANGED <<tmp_files, role_i, item_i, role_files, run>>
  /\ UNCHANGED <<remote, UPLOADED_FILES_CACHE, FILE_LIST_DATA, log_rows, chat_req, resp,
                 pre, seen_during>>

\* Lines 131-132: the file is still PROCESSING, so the loop sleeps.
PollSleep(p) ==
  /\ pc[p] = "wait"
  /\ uploaded_file[p].state = PROCESSING
  /\ pc' = [pc EXCEPT ![p] = "get_file"]
  /\ UNCHANGED <<remote, UPLOADED_FILES_CACHE, FILE_LIST_DATA, tmp_files, log_rows,
                 chat_req, resp, pre, seen_during>>
  /\ UNCHANGED sync_vars

\* Line 133: genai.get_file; `outcome` is the state now reported, or "raise".
GetFile(p, outcome) ==
  /\ pc[p] = "get_file"
  /\ IF outcome = "raise"
       THEN \E rm \in RemoveOutcomes : UploadError(p, rm)
       ELSE /\ uploaded_file' = [uploaded_file EXCEPT ![p].state = outcome]
            /\ pc' = [pc EXCEPT ![p] = "wait"]
            /\ UNCHANGED <<tmp_files, role_i, item_i, role_files, run>>
  /\ UNCHANGED <<remote, UPLOADED_FILES_CACHE, FILE_LIST_DATA, log_rows, chat_req, resp,
                 pre, seen_during>>

\* Lines 131, 135-145: the loop ends, an ACTIVE file is kept, the temporary
\* file is removed, then the next item; when the removal raises, the file
\* stays, the pass ends at line 150 and role_files is lost with it.
FinishItem(p, rm) ==
  /\ pc[p] = "wait"
  /\ uploaded_file[p].state # PROCESSING
  /\ LET seen == IF uploaded_file[p].state = ACTIVE
                   THEN run[p].ready \cup {uploaded_file[p]} ELSE run[p].ready
     IN IF rm = "removed"
          THEN /\ tmp_files' = [tmp_files EXCEPT ![p] = tmp_files[p] \ {TmpPath(Item(p))}]
               /\ NextItem(p, AppendIfActive(role_files[p], uploaded_file[p]))
               /\ run' = [run EXCEPT ![p].ready = seen]
          ELSE /\ pc' = [pc EXCEPT ![p] = "returned"]
               /\ run' = [run EXCEPT ![p] = [result |-> "remove_raised", ready |-> seen]]
               /\ role_files' = [role_files EXCEPT ![p] = << >>]
               /\ UNCHANGED <<tmp_files, role_i, item_i, uploaded_file>>
  /\ UNCHANGED <<remote, UPLOADED_FILES_CACHE, FILE_LIST_DATA, log_rows, chat_req, resp,
                 pre, seen_during>>

\* Line 148.
AssignRole(p) ==
  /\ pc[p] = "assign"
  /\ UPLOADED_FILES_CACHE' = CacheSet(UPLOADED_FILES_CACHE, Role(p), role_files[p])
  /\ NextRole(p)
  /\ UNCHANGED <<remote, FILE_LIST_DATA, tmp_files, log_rows, chat_req, resp, pre,
                 seen_during>>

\* The caller is done with its request: its locals, its response and what the
\* model recorded about the request are dropped.
Forget(p) ==
  /\ role_i' = [role_i EXCEPT ![p] = 0]
  /\ item_i' = [item_i EXCEPT ![p] = 0]
  /\ role_files' = [role_files EXCEPT ![p] = << >>]
  /\ uploaded_file' = [uploaded_file EXCEPT ![p] = NoHandle]
  /\ run' = [run EXCEPT ![p] = NoRun]
  /\ tmp_files' = [tmp_files EXCEPT ![p] = {}]
  /\ log_rows' = [log_rows EXCEPT ![p] = << >>]
  /\ chat_req' = [chat_req EXCEPT ![p] = NoChat]
  /\ resp' = [resp EXCEPT ![p] = NoResp]
  /\ pre' = IF pre.owner = p THEN NoPre ELSE pre
  /\ seen_during' = [q \in Procs |-> IF q = p \/ seen_during[q] = p THEN "none"
                                     ELSE seen_during[q]]

\* Line 171 and lines 258-259: the import ends and the server starts.
StartServer ==
  /\ pc[Main] = "returned"
  /\ pc' = [pc EXCEPT ![Main] = "serving"]
  /\ Forget(Main)
  /\ UNCHANGED <<remote, UPLOADED_FILES_CACHE, FILE_LIST_DATA>>

\* Line 171 and lines 258-259 as in StartServer, with what the model recorded
\* about the startup pass kept, to compare the next pass with it.
StartServerKeep ==
  /\ pc[Main] = "returned"
  /\ pc' = [pc EXCEPT ![Main] = "serving"]
  /\ UNCHANGED <<remote, UPLOADED_FILES_CACHE, FILE_LIST_DATA, tmp_files, log_rows,
                 chat_req, resp, pre, seen_during>>
  /\ UNCHANGED sync_vars

\* Lines 184-188: the /refresh response.
RefreshRespond(t) ==
  /\ pc[t] = "returned"
  /\ resp' = [resp EXCEPT ![t] = [kind |-> "refresh", code |-> 200, status |-> "success",
                                  reply |-> "", files |-> FILE_LIST_DATA]]
  /\ pc' = [pc EXCEPT ![t] = "responded"]
  /\ UNCHANGED <<remote, UPLOADED_FILES_CACHE, FILE_LIST_DATA, tmp_files, log_rows,
                 chat_req, pre, seen_during>>
  /\ UNCHANGED sync_vars

\* Line 183 raised (RaiseOut): the exception leaves refresh_data and Flask
\* answers 500 with its own error page; lines 184-188 do not run.
RefreshFault(t) ==
  /\ pc[t] = "raised"
  /\ t \in Threads
  /\ resp' = [resp EXCEPT ![t] = [kind |-> "refresh", code |-> 500, status |-> "unhandled",
                                  reply |-> "", files |-> << >>]]
  /\ pc' = [pc EXCEPT ![t] = "responded"]
  /\ UNCHANGED <<remote, UPLOADED_FILES_CACHE, FILE_LIST_DATA, tmp_files, log_rows,
                 chat_req, pre, seen_during>>
  /\ UNCHANGED sync_vars

\* The response has been sent; the thread is free for the next request.
Close(t) ==
  /\ pc[t] = "responded"
  /\ pc' = [pc EXCEPT ![t] = "idle"]
  /\ Forget(t)
  /\ UNCHANGED <<remote, UPLOADED_FILES_CACHE, FILE_LIST_DATA>>

\* The pass in flight whose start `pre` recorded, if any.
PassInFlight == IF pre.owner # "none" /\ InFlight(pre.owner) THEN pre.owner ELSE "none"

\* Line 177: GET / renders FILE_LIST_DATA.
Index(t) ==
  /\ pc[t] = "idle"
  /\ pc[Main] = "serving"
  /\ resp' = [resp EXCEPT ![t] = [kind |-> "index", code |-> 200, status |-> "",
                                  reply |-> "", files |-> FILE_LIST_DATA]]
  /\ seen_during' = [seen_during EXCEPT ![t] = PassInFlight]
  /\ pc' = [pc EXCEPT ![t] = "responded"]
  /\ UNCHANGED <<remote, UPLOADED_FILES_CACHE, FILE_LIST_DATA, tmp_files, log_rows,
                 chat_req, pre>>
  /\ UNCHANGED sync_vars

\* history_list[-4:], line 202.
HistoryWindow == 4

\* Line 202 written as history_list[:4].
FirstTurns(h) == IF Len(h) <= HistoryWindow THEN h ELSE SubSeq(h, 1, HistoryWindow)

LastTurns(h) ==
  IF Len(h) <= HistoryWindow THEN h ELSE SubSeq(h, Len(h) - HistoryWindow + 1, Len(h))

\* chat['role'] and chat['text'] (lines 203-204) raise KeyError on a turn that
\* lacks the key, and TypeError on a turn that is no object.
TurnOk(turn) == {"role", "text"} \subseteq DOMAIN turn

HistoryOk(h) == \A i \in 1..Len(LastTurns(h)) : TurnOk(LastTurns(h)[i])

\* Lines 201-205: one "<label>: <text>" line per turn of the window.
HistoryLine(turn) ==
  [label |-> IF turn.role = "user" THEN "User" ELSE "AI", content |-> turn.text]

HistoryText(h) == [i \in 1..Len(LastTurns(h)) |-> HistoryLine(LastTurns(h)[i])]

\* Lines 211-217: the persona sentence of the role, empty for any other role.
RoleInstruction(user_role) == IF user_role \in RoleSet THEN user_role ELSE ""

\* Lines 236-244 with the append of line 244 before the extend of line 239.
RequestContentQuestionFirst(user_role, h, files, msg) ==
  <<[part |-> "instruction", persona |-> RoleInstruction(user_role),
     history |-> HistoryText(h)]>>
  \o <<[part |-> "question", text |-> msg]>>
  \o [i \in 1..Len(files) |-> [part |-> "file", file |-> files[i]]]

\* Lines 236-244: [system_instruction, *target_files, question].
RequestContent(user_role, h, files, msg) ==
  <<[part |-> "instruction", persona |-> RoleInstruction(user_role),
     history |-> HistoryText(h)]>>
  \o [i \in 1..Len(files) |-> [part |-> "file", file |-> files[i]]]
  \o <<[part |-> "question", text |-> msg]>>

\* The fixed reply of line 256.
ErrorReply == "error_reply"

\* The JSON body of a POST /chat that is an object with the three keys; the
\* history is a JSON list of turns.
Body(msg, user_role, h) ==
  [json |-> "object", message |-> msg, role |-> user_role,
   history |-> [json |-> "list", turns |-> h]]

\* A body whose history is a JSON string of n characters: the slice of line
\* 202 is a string, and each turn of the loop is one character of it.
StringHistoryBody(msg, user_role, n) ==
  [json |-> "object", message |-> msg, role |-> user_role,
   history |-> [json |-> "string", turns |-> [i \in 1..n |-> [json |-> "string"]]]]

\* A body whose history is the JSON null.
NullHistoryBody(msg, user_role) ==
  [json |-> "object", message |-> msg, role |-> user_role,
   history |-> [json |-> "null", turns |-> << >>]]

\* A body that is an object with the key message alone.
MessageOnlyBody(msg) == [json |-> "object", message |-> msg]

\* The body that is the JSON null: request.json is None.
NullBody == [json |-> "null"]

\* data.get(key, default), lines 193-195.
BodyGet(body, key, default) == IF key \in DOMAIN body THEN body[key] ELSE default

\* The JSON values history_list[-4:] (line 202) accepts: a list gives its last
\* turns, a string its last characters.
Sliceable == {"list", "string"}

\* An exception leaves chat() before the try of line 246: Flask answers 500
\* with its own error page.
ChatFault(t) ==
  /\ resp' = [resp EXCEPT ![t] = [kind |-> "chat", code |-> 500, status |-> "unhandled",
                                  reply |-> "", files |-> << >>]]
  /\ pc' = [pc EXCEPT ![t] = "responded"]
  /\ UNCHANGED seen_during

\* Lines 192-244 of chat(): the request is parsed, the history rendered, the
\* role's files read from the cache and the generation request built.
ChatBegin(t, body) ==
  /\ pc[t] = "idle"
  /\ pc[Main] = "serving"
  /\ IF body.json # "object"
       THEN \* line 193: None has no attribute get
            /\ ChatFault(t)
            /\ chat_req' = [chat_req EXCEPT ![t] = [NoChat EXCEPT !.raised_at = "body"]]
       ELSE
         LET user_message == BodyGet(body, "message", "")
             history_list == BodyGet(body, "history", [json |-> "list", turns |-> << >>])
             user_role == BodyGet(body, "role", target_roles[1])
             parsed == [NoChat EXCEPT !.user_message = user_message,
                                      !.user_role = user_role,
                                      !.history_list = history_list.turns]
         IN
         IF user_message = ""
           THEN \* line 198
                /\ resp' = [resp EXCEPT ![t] = [kind |-> "chat", code |-> 400,
                                                status |-> "no_message", reply |-> "",
                                                files |-> << >>]]
                /\ pc' = [pc EXCEPT ![t] = "responded"]
                /\ UNCHANGED <<chat_req, seen_during>>
           ELSE IF history_list.json \notin Sliceable \/ ~HistoryOk(history_list.turns)
             THEN \* TypeError at line 202 (None is not subscriptable), TypeError or
                  \* KeyError at line 203 or 204
                  /\ ChatFault(t)
                  /\ chat_req' = [chat_req EXCEPT ![t] =
                                    [parsed EXCEPT !.raised_at = "history"]]
             ELSE LET got == CacheGet(UPLOADED_FILES_CACHE, user_role) IN
                  IF got.raised
                    THEN \* TypeError at line 208
                         /\ ChatFault(t)
                         /\ chat_req' = [chat_req EXCEPT ![t] =
                                           [parsed EXCEPT !.raised_at = "role"]]
                    ELSE /\ chat_req' = [chat_req EXCEPT ![t] =
                               [parsed EXCEPT
                                  !.target_files = got.value,
                                  !.request_content =
                                     RequestContent(user_role, history_list.turns,
                                                    got.value, user_message)]]
                         /\ seen_during' = [seen_during EXCEPT ![t] = PassInFlight]
                         /\ pc' = [pc EXCEPT ![t] = "generate"]
                         /\ UNCHANGED resp
  /\ UNCHANGED <<remote, UPLOADED_FILES_CACHE, FILE_LIST_DATA, tmp_files, log_rows, pre>>
  /\ UNCHANGED sync_vars

\* What model.generate_content and response.text do (lines 248-249): "text" is
\* a reply with text; "blocked" is a safety-blocked response, whose .text
\* accessor raises ValueError; "rate_limited" and "error" are the call raising.
GenOutcomes == {"text", "blocked", "rate_limited", "error"}

\* The text of a reply the service generated.
AnswerText == "answer"

\* Lines 246-249 and 254-256.
ChatGenerate(t, outcome) ==
  /\ pc[t] = "generate"
  /\ IF outcome = "text"
       THEN /\ chat_req' = [chat_req EXCEPT ![t].bot_reply = AnswerText,
                                            ![t].generated = outcome]
            /\ pc' = [pc EXCEPT ![t] = "save_log"]
            /\ UNCHANGED resp
       ELSE /\ resp' = [resp EXCEPT ![t] = [kind |-> "chat", code |-> 500, status |-> "",
                                            reply |-> ErrorReply, files |-> << >>]]
            /\ pc' = [pc EXCEPT ![t] = "responded"]
            /\ chat_req' = [chat_req EXCEPT ![t].generated = outcome]
  /\ UNCHANGED <<remote, UPLOADED_FILES_CACHE, FILE_LIST_DATA, tmp_files, log_rows, pre,
                 seen_during>>
  /\ UNCHANGED sync_vars

\* What save_log_to_sheet does (lines 155-166): "saved" appends the row,
\* "nocreds" returns at line 159, "raise" is caught at line 165.
LogOutcomes == {"saved", "nocreds", "raise"}

\* The row of line 163 (the timestamp is the time of the call).
LogRow(req) == [role |-> req.user_role, user_msg |-> req.user_message,
                bot_msg |-> req.bot_reply]

\* save_log_to_sheet without the try of lines 157 and 165: a raising
\* spreadsheet call reaches the caller.
SaveLogUnguarded(rows, req, outcome) ==
  [rows |-> IF outcome = "saved" THEN Append(rows, LogRow(req)) ELSE rows,
   raised |-> outcome = "raise"]

\* save_log_to_sheet (lines 155-166): the rows of the sheet afterwards, and
\* whether an exception reaches the caller (line 165 catches every one).
save_log_to_sheet(rows, req, outcome) ==
  [rows |-> IF outcome = "saved" THEN Append(rows, LogRow(req)) ELSE rows,
   raised |-> FALSE]

\* Lines 251-253; the call of line 251 is inside the try of line 246, so an
\* exception leaving it would be answered by lines 254-256.
ChatSaveLog(t, outcome) ==
  /\ pc[t] = "save_log"
  /\ LET saved == save_log_to_sheet(log_rows[t], chat_req[t], outcome) IN
       /\ log_rows' = [log_rows EXCEPT ![t] = saved.rows]
       /\ resp' = [resp EXCEPT ![t] =
                     IF saved.raised
                       THEN [kind |-> "chat", code |-> 500, status |-> "",
                             reply |-> ErrorReply, files |-> << >>]
                       ELSE [kind |-> "chat", code |-> 200, status |-> "",
                             reply |-> chat_req[t].bot_reply, files |-> << >>]]
  /\ chat_req' = [chat_req EXCEPT ![t].logged = outcome]
  /\ pc' = [pc EXCEPT ![t] = "responded"]
  /\ UNCHANGED <<remote, UPLOADED_FILES_CACHE, FILE_LIST_DATA, tmp_files, pre,
                 seen_during>>
  /\ UNCHANGED sync_vars

\* Request bodies the specifications send to /chat.
Messages == {"", "question"}

\* The configured roles, a string that is no configured role, and the values
\* that are no strings.
ChatRoles == RoleSet \cup {"guest"} \cup UnhashableRoles

\* The empty history and one whose turn lacks 'role' (ChatSpec has the others).
Histories == {<< >>, <<[text |-> "hello"]>>}

\* The bodies with every message, role and history above, and the ones that
\* lack keys, have a string or a null for history or are null.
Bodies ==
  {Body(msg, user_role, h) : msg \in Messages, user_role \in ChatRoles, h \in Histories}
  \cup {StringHistoryBody("question", target_roles[1], n) : n \in 0..1}
  \cup {NullHistoryBody("question", target_roles[1]), MessageOnlyBody("question"), NullBody}

\* The turns a caller puts in a history: well-formed ones of either speaker,
\* one without 'role', one without 'text' and one that is a JSON string.
Turns == {[role |-> "user", text |-> "a"], [role |-> "model", text |-> "b"],
          [text |-> "c"], [role |-> "user"], [json |-> "string"]}

\* Every history of n turns.
HistoriesOfLength(n) == [1..n -> Turns]

\* One step of load_and_upload_pdfs_by_role by caller p.
SyncStep(p) ==
  \/ ResetCache(p)
  \/ ResetFileList(p)
  \/ \E raises \in BOOLEAN : ListFolders(p, raises)
  \/ \E raises \in BOOLEAN : ListFiles(p, raises)
  \/ AppendFileList(p)
  \/ \E raises \in BOOLEAN : StageFile(p, raises)
  \/ \E outcome \in DownloadOutcomes : Download(p, outcome)
  \/ \E outcome \in HandleStates \cup {"raise"} : UploadFile(p, outcome)
  \/ PollSleep(p)
  \/ \E outcome \in HandleStates \cup {"raise"} : GetFile(p, outcome)
  \/ \E rm \in RemoveOutcomes : FinishItem(p, rm)
  \/ AssignRole(p)

\* One step of chat() by thread t after its first.
ChatStep(t) ==
  \/ \E outcome \in GenOutcomes : ChatGenerate(t, outcome)
  \/ \E outcome \in LogOutcomes : ChatSaveLog(t, outcome)

\* A request arrives and thread t takes it.
Request(t) ==
  \/ \E creds \in CredOutcomes : Refresh(t, creds)
  \/ Index(t)
  \/ \E body \in Bodies : ChatBegin(t, body)

\* The server hands a request to the first free thread.
Pooled(t) ==
  \E i \in 1..Len(thread_order) :
    /\ t = thread_order[i]
    /\ \A j \in 1..(i - 1) : pc[thread_order[j]] # "idle"

\* The import, then the server: a request is taken whenever a thread is free,
\* whatever the other callers are doing, and the callers interleave at every
\* step.
Next ==
  \/ \E creds \in CredOutcomes : Startup(creds)
  \/ StartServer
  \/ \E t \in Threads : Pooled(t) /\ Request(t)
  \/ \E p \in Procs : SyncStep(p)
  \/ \E t \in Threads : RefreshRespond(t)
  \/ \E t \in Threads : RefreshFault(t)
  \/ \E t \in Threads : ChatStep(t)
  \/ \E t \in Threads : Close(t)

Spec == Init /\ [][Next]_vars

\* The thread that handles every request in the specifications below.
Worker == thread_order[1]

\* The steps of Next in which Worker handles the request.
SeqNext ==
  \/ \E creds \in CredOutcomes : Startup(creds)
  \/ StartServer
  \/ Request(Worker)
  \/ \E p \in {Main, Worker} : SyncStep(p)
  \/ RefreshRespond(Worker)
  \/ RefreshFault(Worker)
  \/ ChatStep(Worker)
  \/ Close(Worker)

SeqSpec == SeqInit /\ [][SeqNext]_vars

\* The startup pass alone.
BootNext ==
  \/ \E creds \in CredOutcomes : Startup(creds)
  \/ SyncStep(Main)

FairSpec == Init /\ [][BootNext]_vars /\ WF_vars(BootNext)

\* A server that started without credentials and without folders on the
\* Drive, Worker answering /chat requests with histories of every shape.
ChatInit == Init /\ \A r \in RoleSet : ~FolderExists(remote, r)

ChatNext ==
  \/ Startup("none")
  \/ StartServer
  \/ /\ pc[Worker] = "idle"
     /\ \E n \in 0..MaxHistory :
          \E h \in HistoriesOfLength(n), user_role \in ChatRoles :
            ChatBegin(Worker, Body("question", user_role, h))
  \/ ChatStep(Worker)
  \/ Close(Worker)

ChatSpec == ChatInit /\ [][ChatNext]_vars

\* The startup pass followed by one GET /refresh handled by Worker, the Drive
\* unchanged between them.
TwiceNext ==
  \/ \E creds \in CredOutcomes : Startup(creds)
  \/ StartServerKeep
  \/ \E creds \in CredOutcomes : Refresh(Worker, creds)
  \/ \E p \in {Main, Worker} : SyncStep(p)
  \/ RefreshRespond(Worker)
  \/ RefreshFault(Worker)

TwiceSpec == SeqInit /\ [][TwiceNext]_vars

(***************************************************************************)
(* Properties                                                              *)
(***************************************************************************)

Range(f) == {f[i] : i \in DOMAIN f}

\* The list a reader of the cache gets for a role.
CacheList(cache, r) == CacheGet(cache, r).value

RoleIndex(r) == CHOOSE i \in 1..Len(target_roles) : target_roles[i] = r

\* What a reader of the cache gets for each role.
SameCache(c1, c2) == \A r \in ChatRoles : CacheList(c1, r) = CacheList(c2, r)

\* Pass p ran alone from its start and has just returned: the globals now are
\* the ones it built, `pre` holds the ones it found.
AloneAndReturned(p) == pre.owner = p /\ pc[p] = "returned"

\* Thread t holds the file list it read for / while pass p was in flight.
IndexReadDuring(t, p) ==
  pc[t] = "responded" /\ resp[t].kind = "index" /\ seen_during[t] = p

\* Thread t holds the role's files it read for /chat while pass p was in flight.
ChatReadDuring(t, p) ==
  pc[t] \in {"generate", "save_log", "responded"} /\ chat_req[t].request_content # << >>
  /\ seen_during[t] = p

\* C1: atomic publish.  Whatever a request read from FILE_LIST_DATA (GET /) or
\* from UPLOADED_FILES_CACHE (POST /chat) while a pass was in flight is what
\* the global held before the pass or what it holds when the pass has
\* returned, never a value in between.
C1_AtomicPublish ==
  \A p \in Procs, t \in Threads :
    AloneAndReturned(p) =>
      /\ IndexReadDuring(t, p) => resp[t].files \in {pre.files, FILE_LIST_DATA}
      /\ ChatReadDuring(t, p) =>
           chat_req[t].target_files \in
             {CacheList(pre.cache, chat_req[t].user_role),
              CacheList(UPLOADED_FILES_CACHE, chat_req[t].user_role)}

\* C2: a pass that fails as a whole (no credentials, or a Drive listing call
\* raises) leaves the cache and the display list as they were before it.
C2_FailedPassKeepsCache ==
  \A p \in Procs :
    (AloneAndReturned(p) /\ run[p].result \in {"nocreds", "listing_raised"}) =>
      /\ SameCache(UPLOADED_FILES_CACHE, pre.cache)
      /\ FILE_LIST_DATA = pre.files

\* C3: every sync pass terminates (by returning or by an exception of its
\* set-up), also when a file never leaves PROCESSING.
C3_SyncTerminates == <>(pc[Main] \in {"returned", "raised"})

\* Item k of role number ri was reached by the pass of p (its entry was
\* appended and its download started).
Attempted(p, ri, k) == ri < role_i[p] \/ (ri = role_i[p] /\ k <= item_i[p])

\* C4: an exception while downloading or submitting one document (the removal
\* of its temporary file included) costs only that document.  When a pass that
\* could list every folder has returned, it has reached every document of every
\* folder, and every file it saw ACTIVE is in the cache list of its role.
C4_DocumentFailureContained ==
  \A p \in Procs :
    (AloneAndReturned(p)
       /\ run[p].result \in {"completed", "download_raised", "remove_raised"}) =>
      /\ \A ri \in 1..Len(target_roles) :
           \A k \in 1..Len(FolderItems(remote, target_roles[ri])) : Attempted(p, ri, k)
      /\ \A h \in run[p].ready : h \in Range(CacheList(UPLOADED_FILES_CACHE, h.src[1]))

\* C5: refreshes are serialized: at most one caller is inside
\* load_and_upload_pdfs_by_role at any time.
C5_RefreshSerialized == Cardinality({p \in Procs : InFlight(p)}) <= 1

\* C6: every file in a role's list, in the cache or being collected by a pass,
\* is ACTIVE and was seen ACTIVE by the pass that collected it; a file whose
\* upload raised, FAILED or stayed PROCESSING is in no list.
C6_OnlyActiveCached ==
  /\ \A r \in DOMAIN UPLOADED_FILES_CACHE :
       \A h \in Range(UPLOADED_FILES_CACHE[r]) : h.state = ACTIVE
  /\ \A p \in Procs :
       /\ \A h \in Range(role_files[p]) : h.state = ACTIVE /\ h \in run[p].ready
       /\ (pc[p] = "wait" /\ uploaded_file[p].state # ACTIVE) =>
            uploaded_file[p] \notin Range(role_files[p])

\* C6 witness: two passes overlapped on a folder of one PDF; one saw its upload
\* become ACTIVE and has stored it, the other saw its upload end otherwise and
\* is about to store the list it collected, which is empty.
C6_Witness ==
  \E p, q \in Procs, r \in RoleSet :
    /\ p # q
    /\ Len(CacheList(UPLOADED_FILES_CACHE, r)) = 1
    /\ UPLOADED_FILES_CACHE[r][1] \in run[p].ready
    /\ pc[q] = "assign" /\ Role(q) = r
    /\ run[q].ready = {} /\ role_files[q] = << >>

\* C7: a role without a folder has an empty list in the cache after a pass
\* that reached the Drive; the pass goes on to the remaining roles, and
\* /refresh answers success.
C7_MissingFolderIsEmpty ==
  \A p \in Procs :
    (pc[p] \in {"returned", "responded"}
       /\ run[p].result \notin {"none", "nocreds", "setup_raised"}) =>
      /\ \A r \in RoleSet :
           ~FolderExists(remote, r) =>
             r \in DOMAIN UPLOADED_FILES_CACHE /\ UPLOADED_FILES_CACHE[r] = << >>
      /\ run[p].result = "completed" => role_i[p] = Len(target_roles)
      /\ (pc[p] = "responded" /\ run[p].result = "completed") =>
           resp[p].status = "success"

\* C7 witness: /refresh has answered after a pass that found no folder for one
\* role and cached a file of a later role.
C7_Witness ==
  \E t \in Threads, r1, r2 \in RoleSet :
    /\ pc[t] = "responded" /\ resp[t].kind = "refresh" /\ run[t].result = "completed"
    /\ RoleIndex(r1) < RoleIndex(r2)
    /\ ~FolderExists(remote, r1)
    /\ Len(CacheList(UPLOADED_FILES_CACHE, r2)) > 0

\* C8: /refresh answers failure when the pass aborted as a whole, and success
\* with the current display list when the pass completed.
C8_RefreshReportsOutcome ==
  \A t \in Threads :
    (pc[t] = "responded" /\ resp[t].kind = "refresh") =>
      /\ run[t].result \in {"nocreds", "listing_raised"} => resp[t].status = "failure"
      /\ run[t].result = "completed" =>
           resp[t].status = "success" /\ resp[t].files = FILE_LIST_DATA

\* C9: a chat overlapping a refresh is not blocked (its steps are enabled
\* whatever the pass is doing) and the list it read for its role is the list of
\* the cache before the pass or of the cache the pass built.
C9_ChatNotBlockedNotTorn ==
  \A t \in Threads :
    /\ (pc[Main] = "serving" /\ pc[t] = "idle") =>
         ENABLED ChatBegin(t, Body("question", target_roles[1], << >>))
    /\ pc[t] = "generate" => ENABLED ChatGenerate(t, "text")
    /\ \A p \in Procs :
         (AloneAndReturned(p) /\ ChatReadDuring(t, p)) =>
           \/ chat_req[t].target_files = CacheList(pre.cache, chat_req[t].user_role)
           \/ chat_req[t].target_files =
                CacheList(UPLOADED_FILES_CACHE, chat_req[t].user_role)

\* C10: a safety-blocked generation is answered as a normal reply (not the
\* error reply of a failed call) and the log sink is called with that reply as
\* the answer.
C10_BlockedReplyIsLogged ==
  \A t \in Threads :
    (pc[t] = "responded" /\ resp[t].kind = "chat" /\ chat_req[t].generated = "blocked") =>
      /\ resp[t].code = 200
      /\ resp[t].reply # ErrorReply
      /\ chat_req[t].logged # "none"
      /\ chat_req[t].logged = "saved" =>
           \E i \in 1..Len(log_rows[t]) : log_rows[t][i].bot_msg = resp[t].reply

\* Thread t has answered a POST /chat whose message was not empty.
ChatAnswered(t) ==
  pc[t] = "responded" /\ resp[t].kind = "chat" /\ chat_req[t].user_message # ""

\* C11: every POST /chat with a non-empty message is answered with some reply
\* text and never by an unhandled fault, whatever the history (turns without
\* 'role' or 'text' included), the role and the outcome of the generation call.
C11_ChatAlwaysReplies ==
  \A t \in Threads :
    ChatAnswered(t) => resp[t].status # "unhandled" /\ resp[t].reply # ""

\* C12: a failing log sink (no credentials, or the spreadsheet call raising)
\* never fails the chat response: after a successful generation the caller
\* gets the generated text with code 200.
C12_LogFailureKeepsReply ==
  \A t \in Threads :
    (ChatAnswered(t) /\ chat_req[t].generated = "text"
       /\ chat_req[t].logged \in {"nocreds", "raise"}) =>
      /\ resp[t].code = 200
      /\ resp[t].reply = AnswerText
      /\ resp[t].reply = chat_req[t].bot_reply

\* C12 witness: a chat has been answered with the generated text although the
\* spreadsheet call raised, and no row was written.
C12_Witness ==
  \E t \in Threads :
    /\ ChatAnswered(t) /\ chat_req[t].generated = "text"
    /\ chat_req[t].logged = "raise"
    /\ resp[t].reply = AnswerText
    /\ log_rows[t] = << >>

\* C13: when the generation call fails for a rate-limiting reason the reply is
\* a fixed retry-later message of its own, not the generic message that
\* answers any other generation failure (line 256).
C13_RateLimitReplyDistinct ==
  \A t \in Threads :
    (ChatAnswered(t) /\ chat_req[t].generated = "rate_limited") =>
      resp[t].reply # "" /\ resp[t].reply # ErrorReply

\* Thread t is handling, or has answered, a POST /chat whose generation
\* request was built (line 244).
ChatInHand(t) ==
  pc[t] \in {"generate", "save_log", "responded"} /\ chat_req[t].request_content # << >>

\* The role is no key of the cache, or is a configured role without a folder.
NoDocumentsRole(r) ==
  r \notin DOMAIN UPLOADED_FILES_CACHE \/ (r \in RoleSet /\ ~FolderExists(remote, r))

\* Thread t is handling, or has answered, a POST /chat with a message whose
\* history was rendered (line 205 passed).
ChatPastHistory(t) ==
  /\ pc[t] \in {"generate", "save_log", "responded"}
  /\ chat_req[t].user_message # ""
  /\ chat_req[t].raised_at \notin {"body", "history"}

\* C14: a chat for a role unknown to the cache, or for a configured role with
\* no folder, resolves to no documents without error: the generation request
\* is the instruction and the question with no file part between them, the
\* generation is invoked, and after a successful reply the log sink is called
\* and the row it writes is the row of this chat.
C14_UnknownRoleIsEmpty ==
  \A t \in Threads :
    (ChatPastHistory(t) /\ NoDocumentsRole(chat_req[t].user_role)) =>
      /\ chat_req[t].raised_at = ""
      /\ chat_req[t].target_files = << >>
      /\ Len(chat_req[t].request_content) = 2
      /\ \A i \in 1..Len(chat_req[t].request_content) :
           chat_req[t].request_content[i].part # "file"
      /\ pc[t] = "generate" => ENABLED ChatGenerate(t, "text")
      /\ pc[t] = "responded" => chat_req[t].generated # "none"
      /\ (pc[t] = "responded" /\ chat_req[t].generated = "text") =>
           /\ resp[t].code = 200 /\ resp[t].reply = AnswerText
           /\ chat_req[t].logged # "none"
           /\ chat_req[t].logged = "saved" =>
                log_rows[t] = <<LogRow(chat_req[t])>>

\* C15: the generation request is the instruction text, then the files of the
\* resolved role exactly as the cache stores them (each once, in stored order,
\* none of another role), then the question text.
C15_RequestOrder ==
  \A t \in Threads :
    ChatInHand(t) =>
      LET rc == chat_req[t].request_content
          stored == CacheList(UPLOADED_FILES_CACHE, chat_req[t].user_role)
      IN /\ Len(rc) = Len(stored) + 2
         /\ rc[1].part = "instruction"
         /\ rc[1].persona = RoleInstruction(chat_req[t].user_role)
         /\ \A i \in 1..Len(stored) :
              /\ rc[i + 1] = [part |-> "file", file |-> stored[i]]
              /\ stored[i].src[1] = chat_req[t].user_role
         /\ rc[Len(rc)] = [part |-> "question", text |-> chat_req[t].user_message]

\* C15 witness: a chat is in hand for a role whose cache list holds two
\* different files.
C15_Witness ==
  \E t \in Threads :
    /\ pc[t] = "generate"
    /\ Len(chat_req[t].request_content) = 4
    /\ chat_req[t].request_content[2] # chat_req[t].request_content[3]
    /\ chat_req[t].request_content[2].file.display_name = 1

\* C16: the rendered history holds exactly the last min(M, 4) turns of a
\* supplied history of M turns, in their original order, one labelled line per
\* turn.
C16_HistoryTruncation ==
  \A t \in Threads :
    ChatInHand(t) =>
      LET h == chat_req[t].history_list
          rendered == chat_req[t].request_content[1].history
          n == IF Len(h) < HistoryWindow THEN Len(h) ELSE HistoryWindow
      IN /\ Len(rendered) = n
         /\ \A i \in 1..n :
              LET turn == h[Len(h) - n + i] IN
              /\ TurnOk(turn)
              /\ rendered[i].label = (IF turn.role = "user" THEN "User" ELSE "AI")
              /\ rendered[i].content = turn.text

\* C16 witness: a chat is in hand whose history is longer than the window;
\* its first turn, which the window leaves out, differs from every turn
\* rendered and could not have been rendered.
C16_Witness ==
  \E t \in Threads :
    /\ pc[t] = "generate"
    /\ Len(chat_req[t].history_list) > HistoryWindow
    /\ ~TurnOk(chat_req[t].history_list[1])
    /\ Len(chat_req[t].request_content[1].history) = HistoryWindow
    /\ chat_req[t].request_content[1].history[1].label = "User"
    /\ chat_req[t].request_content[1].history[2].label = "AI"

\* The passes of p and q ended the same way at the same place and saw the
\* same files ACTIVE.
SameOutcomes(p, q) ==
  /\ run[p].result # "none"
  /\ run[p] = run[q]
  /\ role_i[p] = role_i[q]
  /\ item_i[p] = item_i[q]

\* C17: refresh idempotence.  When the pass of /refresh follows the startup
\* pass on an unchanged Drive and ends with the same outcomes, the cache it
\* leaves gives every role the list the startup pass left, and the display
\* list is the one the startup pass left: nothing accumulated, nothing dropped.
C17_RefreshIdempotent ==
  \A t \in Threads :
    (pc[Main] = "serving" /\ pc[t] \in {"returned", "responded"} /\ pre.owner = t
       /\ SameOutcomes(Main, t)) =>
      /\ SameCache(UPLOADED_FILES_CACHE, pre.cache)
      /\ DOMAIN UPLOADED_FILES_CACHE = DOMAIN pre.cache
      /\ FILE_LIST_DATA = pre.files

\* C17 witness: both passes completed over a folder of two PDFs, one ACTIVE
\* and one not, and /refresh has answered.
C17_Witness ==
  \E t \in Threads, r \in RoleSet :
    /\ pc[Main] = "serving" /\ pc[t] = "responded" /\ pre.owner = t
    /\ SameOutcomes(Main, t)
    /\ run[t].result = "completed"
    /\ Len(FolderItems(remote, r)) = 2
    /\ Len(CacheList(UPLOADED_FILES_CACHE, r)) = 1
    /\ Len(FILE_LIST_DATA) = 2

\* What a display list entry carries besides the name and the link of its
\* document.
EntryMark(e) == [f \in DOMAIN e \ {"name", "url"} |-> e[f]]

\* The documents the pass of p saw ACTIVE, each as the role and the name its
\* display entry shows.
ReadyDocs(p) == {<<h.src[1], h.display_name>> : h \in run[p].ready}

\* C18: in the display list a pass leaves, the entry of a document whose
\* ingestion was rejected, raised or never finished is marked distinctly from
\* the entries of the documents that became ready.
C18_FailedEntryMarked ==
  \A p \in Procs :
    AloneAndReturned(p) =>
      \A i, j \in 1..Len(FILE_LIST_DATA) :
        (FILE_LIST_DATA[i].name \notin ReadyDocs(p) /\ FILE_LIST_DATA[j].name \in ReadyDocs(p))
          => EntryMark(FILE_LIST_DATA[i]) # EntryMark(FILE_LIST_DATA[j])

\* Control points of a pass between the ingestion of one document and the
\* staging of the next, and after the pass.
BetweenDocuments == {"list_folders", "list_files", "append_list", "assign", "returned"}

\* C19: the temporary file staged for a document is removed on every way its
\* ingestion can end (ACTIVE, rejected, upload or poll raising, download
\* raising), so none exists before the next document is staged or once the
\* pass has ended.
C19_StagingFileReleased ==
  \A p \in Procs : pc[p] \in BetweenDocuments => tmp_files[p] = {}

\* The ids of the PDFs the Drive lists in the folder named r.
FolderDocs(r) == IF r \in RoleSet THEN {it.id : it \in Range(FolderItems(remote, r))} ELSE {}

\* C20: role isolation.  In every state, overlapping refreshes included, each
\* file in the cache list of a role, in the list a pass is collecting for a
\* role and in the list a chat read for its role is a document of the folder
\* of that role.
C20_RoleIsolation ==
  /\ \A r \in DOMAIN UPLOADED_FILES_CACHE :
       \A h \in Range(UPLOADED_FILES_CACHE[r]) : h.src[1] = r /\ h.src \in FolderDocs(r)
  /\ \A p \in Procs :
       \A h \in Range(role_files[p]) : h.src[1] = Role(p) /\ h.src \in FolderDocs(Role(p))
  /\ \A t \in Threads :
       ChatInHand(t) =>
         \A h \in Range(chat_req[t].target_files) :
           h.src[1] = chat_req[t].user_role /\ h.src \in FolderDocs(chat_req[t].user_role)

\* C20 witness: two refreshes overlap; the cache holds a file of a role that
\* is not the first, written by one of them, while the other is collecting
\* the files of a role.
C20_Witness ==
  \E p, q \in Procs, r \in RoleSet \ {target_roles[1]} :
    /\ p # q /\ InFlight(p) /\ InFlight(q)
    /\ Len(CacheList(UPLOADED_FILES_CACHE, r)) > 0
    /\ role_i[p] > RoleIndex(r)
    /\ Len(role_files[q]) > 0

====
